---- MODULE Spec2Model ----
(***************************************************************************)
(* Model of backend/services/timeline_aggregator.py: TimelineAggregator.   *)
(* generate_heatmap_data walks the timeline files twice (participant       *)
(* mapping pass, event pass), classifies positioned events for the target  *)
(* player and formats per-minute series with _format_timeline_data.        *)
(*                                                                         *)
(* Averages are floats rounded to 2 decimals in the source; the model      *)
(* carries them as integer hundredths (0.12 is 12).                        *)
(***************************************************************************)
EXTENDS Integers, Sequences, FiniteSets, TLC

\* ---------------------------------------------------------------- bounds
MaxFiles == 2          \* timeline files in the corpus
MaxFrames == 1         \* frames read from one timeline file
MaxEvents == 2         \* events processed in one invocation (main corpus)
MaxClassified == 1     \* events processed in the single-event specification
MaxMinute == 2         \* largest minute key drawn for _format_timeline_data
MaxCount == 3          \* largest raw count drawn for one minute
MaxMatches == 40       \* largest len(puuid_to_participant_map) drawn

\* ------------------------------------------------------ program constants
MsPerMinute == 60000   \* timestamp // 60000
MantissaBits == 53     \* IEEE-754 binary64 significand of a Python float

None == "None"          \* Python None where it is only stored, never compared
Categories == {"deaths", "kills", "assists", "objectives"}

VARIABLES
    timeline_files,            \* list(timelines_dir.glob("timeline_*.json"))
    matches_dir,               \* directory listing of matches_dir
    pc,                        \* position inside generate_heatmap_data
    fi,                        \* index of the timeline file of the running loop
    frameNo,                   \* frames of the current file read so far
    eventNo,                   \* events of the current frame read so far
    nEvents,                   \* events read in this invocation
    puuid_to_participant_map,
    player_participant_id,
    event,                     \* loop variable of the event loop
    heatmap_data,
    stats,
    timeline_stats,
    result,                    \* the returned dict
    resolver_calls,            \* match ids passed to the resolver, in order
    errors,                    \* logger.error calls of the two passes
    minute_buckets,            \* argument of _format_timeline_data
    n_matches,                 \* len(puuid_to_participant_map) at line 206
    series                     \* value returned by _format_timeline_data

vars == <<timeline_files, matches_dir, pc, fi, frameNo, eventNo, nEvents,
          puuid_to_participant_map, player_participant_id, event,
          heatmap_data, stats, timeline_stats, result, resolver_calls,
          errors, minute_buckets, n_matches, series>>

\* ---------------------------------------------------------------- helpers
EmptyDict == [k \in {} |-> 0]

SetMax(S) == CHOOSE m \in S : \A k \in S : k <= m

\* dict.get(key, default)
DictGet(d, k, default) == IF k \in DOMAIN d THEN d[k] ELSE default

\* d[k] = v
DictSet(d, k, v) == [x \in DOMAIN d \cup {k} |-> IF x = k THEN v ELSE d[x]]

\* ------------------------------------------- round(count / total_matches, 2)
\* count / total_matches is the binary64 nearest to the rational quotient.
\* QuotientBits runs the long division that produces its significand: after
\* the leading 1 bit, `left` more bits are produced from remainder r (< b).
\* It returns the sign of (float - rational): 0 when the quotient is exact.
RECURSIVE QuotientBits(_, _, _, _)
QuotientBits(r, b, left, lastBit) ==
    IF left = 0
    THEN IF r = 0 THEN 0
         ELSE IF 2 * r > b \/ (2 * r = b /\ lastBit = 1) THEN 1
         ELSE -1
    ELSE IF 2 * r >= b
         THEN QuotientBits(2 * r - b, b, left - 1, 1)
         ELSE QuotientBits(2 * r, b, left - 1, 0)

\* Scale a / b into [1, 2) by powers of two (the exponent does not change
\* which way the significand is rounded).
RECURSIVE Normalise(_, _)
Normalise(a, b) ==
    IF a >= 2 * b THEN Normalise(a, 2 * b)
    ELSE IF a < b THEN Normalise(2 * a, b)
    ELSE <<a, b>>

FloatDivError(a, b) ==
    IF a = 0 THEN 0
    ELSE LET n == Normalise(a, b)
         IN  QuotientBits(n[1] - n[2], n[2], MantissaBits - 1, 1)

\* round(x, 2) of a float is the correctly rounded 2-decimal value of the
\* exact binary value of x, ties to even (CPython float.__round__).  A
\* quotient that is not a decimal tie lies at least 1/(200*total) from the
\* nearest tie, far more than the float error, so it rounds as the rational
\* does.  A quotient that is a decimal tie rounds by the exact float: to
\* even when the float is exact, else to the side the float fell on.
RoundHalfUp(count, total_matches) ==
    (200 * count + total_matches) \div (2 * total_matches)

RoundAverage(count, total_matches) ==
    LET lo == (100 * count) \div total_matches
        tie == (200 * count) % total_matches = 0
               /\ ((200 * count) \div total_matches) % 2 = 1
        err == FloatDivError(count, total_matches)
    IN  IF ~tie THEN (200 * count + total_matches) \div (2 * total_matches)
        ELSE IF err > 0 THEN lo + 1
        ELSE IF err < 0 THEN lo
        ELSE IF lo % 2 = 0 THEN lo ELSE lo + 1

\* -------------------------------------------------- _format_timeline_data
\* the for loop over range(0, max_minute + 1) with its running cumulative
RECURSIVE FormatLoop(_, _, _, _, _, _)
FormatLoop(buckets, total_matches, minute, max_minute, cumulative, acc) ==
    IF minute > max_minute THEN acc
    ELSE LET count == DictGet(buckets, minute, 0)
             cum == cumulative + count
         IN  FormatLoop(buckets, total_matches, minute + 1, max_minute, cum,
                        Append(acc, [minute |-> minute,
                                     count |-> count,
                                     cumulative |-> cum,
                                     average_per_game |->
                                         RoundAverage(count, total_matches)]))

\* faulty variant: range(0, max_minute) drops the last minute
FormatTimelineDataShort(buckets, total_matches) ==
    IF DOMAIN buckets = {} THEN <<>>
    ELSE FormatLoop(buckets, total_matches, 0, SetMax(DOMAIN buckets) - 1, 0, <<>>)

FormatTimelineData(buckets, total_matches) ==
    IF DOMAIN buckets = {} THEN <<>>
    ELSE FormatLoop(buckets, total_matches, 0, SetMax(DOMAIN buckets), 0, <<>>)

\* len(puuid_to_participant_map) or 1
TotalMatchesOr1(n) == IF n = 0 THEN 1 ELSE n


\* ------------------------------------------------------------ the corpus
\* Match identifiers are strings; they are kept as sequences of characters
\* so that the `*` of the glob pattern match_*{match_id}.json can be applied.
MatchIds == {<<1>>, <<2, 1>>}

TargetPuuid == "T"
Corrupt == <<"corrupt">>      \* a match file json.load or ['metadata'] rejects
ParticipantLists == {<<"O", "T">>, <<"O", "O">>}   \* target is participant 2, or absent

\* A timeline file: whether open / json.load / ['metadata']['matchId']
\* succeed on it, and the match id it then yields.
TimelineFileKinds ==
    {[loads |-> FALSE, matchId |-> <<>>]}
    \cup {[loads |-> TRUE, matchId |-> m] : m \in MatchIds}

\* A match file match_<tail>.json and its metadata.participants.
MatchFileKinds == [tail : MatchIds, participants : ParticipantLists \cup {Corrupt}]

SeqsUpTo(S, n) == UNION {[1..k -> S] : k \in 0..n}

MatchDirs ==
    {d \in SeqsUpTo(MatchFileKinds, Cardinality(MatchIds)) :
        \A i, j \in DOMAIN d : i # j => d[i].tail # d[j].tail}

\* the directories of the event-pass corpus: every match file is well formed
\* and lists the target (which match ids resolve still depends on the files)
MainDirs == {d \in MatchDirs : \A i \in DOMAIN d : d[i].participants = <<"O", "T">>}

EventTypes == {"CHAMPION_KILL", "ELITE_MONSTER_KILL", "BUILDING_KILL", "ITEM_PURCHASED"}
ParticipantIds == {1, 2}
Positions == {[x |-> 1, y |-> 2], [y |-> 2]}

SubTypePart(type) ==
    IF type = "ELITE_MONSTER_KILL" THEN [monsterType |-> "DRAGON"]
    ELSE IF type = "BUILDING_KILL" THEN [buildingType |-> "TOWER_BUILDING"]
    ELSE EmptyDict

\* Events are JSON objects: functions from the keys they have.  'timestamp'
\* and 'position' may be absent, and a position may lack its 'x'.  A
\* timestamp that is there is a non-negative integer of milliseconds.
EventsOver(types, kids, vids, assists, stamps) ==
    {[type |-> t, killerId |-> k, victimId |-> v, assistingParticipantIds |-> a]
        @@ SubTypePart(t) @@ ts @@ pos :
        t \in types, k \in kids, v \in vids, a \in assists,
        ts \in {EmptyDict} \cup {[timestamp |-> s] : s \in stamps},
        pos \in {EmptyDict} \cup {[position |-> p] : p \in Positions}}

\* every event shape, for the single-event specification
AllEvents ==
    EventsOver(EventTypes, ParticipantIds, ParticipantIds,
               SUBSET ParticipantIds, {59999, 60000})

\* The events timeline files of the main corpus hold: positioned champion
\* kills of participant 2 in minutes 0 and 2, a building kill in minute 0
\* and a champion kill without a timestamp.
CorpusEvents ==
    {e \in EventsOver({"CHAMPION_KILL", "BUILDING_KILL"}, {2}, {2}, {{}},
                      {59999, 125000}) :
        /\ "position" \in DOMAIN e /\ "x" \in DOMAIN e.position
        /\ e.type = "BUILDING_KILL" => DictGet(e, "timestamp", 0) = 59999}

\* --------------------------------------------- _get_participant_id_for_puuid
IsSuffix(s, t) ==
    Len(s) <= Len(t) /\ SubSeq(t, Len(t) - Len(s) + 1, Len(t)) = s

\* list(self.matches_dir.glob(f"match_*{match_id}.json"))
MatchGlob(dir, match_id) ==
    SelectSeq(dir, LAMBDA f : IsSuffix(match_id, f.tail))

\* enumerate(participants, 1): the first index holding the puuid
IndexOfPuuid(participants, puuid) ==
    IF \E i \in DOMAIN participants : participants[i] = puuid
    THEN CHOOSE i \in DOMAIN participants :
            participants[i] = puuid
            /\ \A j \in 1..(i - 1) : participants[j] # puuid
    ELSE 0

GetParticipantIdForPuuid(dir, match_id, target_puuid) ==
    LET match_files == MatchGlob(dir, match_id)
    IN  IF match_files = <<>> THEN 0
        ELSE IF match_files[1].participants = Corrupt THEN 0
        ELSE IndexOfPuuid(match_files[1].participants, target_puuid)


\* ------------------------------------------ the event loop body (126-196)
\* not event.get('position'): the key is absent, or the dict is empty
HasPosition(e) == "position" \in DOMAIN e /\ DOMAIN e["position"] # {}

\* event.get(key) == player_participant_id (None equals no participant id)
IdIs(e, key, pid) == key \in DOMAIN e /\ e[key] = pid

\* player_participant_id in event.get('assistingParticipantIds', [])
Assisted(e, pid) == pid \in DictGet(e, "assistingParticipantIds", {})

\* timestamp // 60000
MinuteBucket(timestamp) == timestamp \div MsPerMinute

\* faulty variant: the kill branch is tested before the death branch
ClassifyKillFirst(e, pid) ==
    IF e.type = "CHAMPION_KILL" /\ IdIs(e, "killerId", pid) THEN "kills"
    ELSE IF e.type = "CHAMPION_KILL" /\ IdIs(e, "victimId", pid) THEN "deaths"
    ELSE IF e.type = "CHAMPION_KILL" /\ Assisted(e, pid) THEN "assists"
    ELSE IF e.type = "ELITE_MONSTER_KILL" /\ IdIs(e, "killerId", pid) THEN "objectives"
    ELSE IF e.type = "BUILDING_KILL"
         THEN IF Assisted(e, pid) \/ IdIs(e, "killerId", pid)
              THEN "objectives" ELSE None
    ELSE None

\* the if / elif chain of lines 137-187: the category the event goes to
Classify(e, pid) ==
    IF e.type = "CHAMPION_KILL" /\ IdIs(e, "victimId", pid) THEN "deaths"
    ELSE IF e.type = "CHAMPION_KILL" /\ IdIs(e, "killerId", pid) THEN "kills"
    ELSE IF e.type = "CHAMPION_KILL" /\ Assisted(e, pid) THEN "assists"
    ELSE IF e.type = "ELITE_MONSTER_KILL" /\ IdIs(e, "killerId", pid) THEN "objectives"
    ELSE IF e.type = "BUILDING_KILL"
         THEN IF Assisted(e, pid) \/ IdIs(e, "killerId", pid)
              THEN "objectives" ELSE None
    ELSE None

\* the category-specific field of the appended dict
PeerField(cat, e) ==
    IF cat = "deaths" THEN [killer_id |-> DictGet(e, "killerId", None)]
    ELSE IF cat \in {"kills", "assists"} THEN [victim_id |-> DictGet(e, "victimId", None)]
    ELSE IF e.type = "ELITE_MONSTER_KILL"
         THEN [monster_type |-> DictGet(e, "monsterType", None)]
    ELSE [building_type |-> DictGet(e, "buildingType", None)]

\* The dict appended to heatmap_data[cat].  `src` is not in the source: it
\* records which file, frame and event the point came from.
Point(cat, e, match_id, src) ==
    [x |-> e.position.x, y |-> e.position.y, timestamp |-> e.timestamp,
     match_id |-> match_id, src |-> src] @@ PeerField(cat, e)

\* faulty variant: insert(0, point)
PrependPoint(points, point) == <<point>> \o points

\* heatmap_data[cat].append(point)
AppendPoint(points, point) == Append(points, point)

\* faulty variant: = 1 instead of += 1
SetBucket(buckets, minute) == DictSet(buckets, minute, 1)

\* timeline_stats[cat][minute_bucket] += 1 on a defaultdict(int)
BumpBucket(buckets, minute) == DictSet(buckets, minute, DictGet(buckets, minute, 0) + 1)

\* evaluating the appended dict raises KeyError when pos lacks 'x' or 'y'
PointRaises(e) == ~({"x", "y"} \subseteq DOMAIN e["position"])

\* What one iteration of the event loop does with event e:
\*   "skip"   no position (line 127-128)
\*   "raise"  an exception leaves the try block (line 198)
\*   "none"   no branch of the chain matches
\*   a category otherwise
Outcome(e, pid) ==
    IF ~HasPosition(e) THEN "skip"
    ELSE IF "timestamp" \notin DOMAIN e THEN "raise"
    ELSE LET cat == Classify(e, pid)
         IN  IF cat = None THEN "none"
             ELSE IF PointRaises(e) THEN "raise"
             ELSE cat


\* faulty variant: every branch bumps deaths_count (a copied branch left unedited)
BumpCountCopied(st, cat) == [st EXCEPT !.deaths_count = @ + 1]

\* stats['<category>_count'] += 1
BumpCount(st, cat) ==
    IF cat = "deaths" THEN [st EXCEPT !.deaths_count = @ + 1]
    ELSE IF cat = "kills" THEN [st EXCEPT !.kills_count = @ + 1]
    ELSE IF cat = "assists" THEN [st EXCEPT !.assists_count = @ + 1]
    ELSE [st EXCEPT !.objectives_count = @ + 1]

\* faulty variant: the counter is bumped for every classified event, also without
\* a position
StatsAfterUnguarded(st, e, pid) ==
    IF Classify(e, pid) \in Categories THEN BumpCount(st, Classify(e, pid)) ELSE st

\* the three accumulators after one iteration of the event loop
StatsAfter(st, e, pid) ==
    IF Outcome(e, pid) \in Categories THEN BumpCount(st, Outcome(e, pid)) ELSE st

HeatmapAfter(hm, e, pid, match_id, src) ==
    LET cat == Outcome(e, pid)
    IN  IF cat \in Categories
        THEN [hm EXCEPT ![cat] = AppendPoint(@, Point(cat, e, match_id, src))]
        ELSE hm

TimelineStatsAfter(ts, e, pid) ==
    LET cat == Outcome(e, pid)
    IN  IF cat \in Categories
        THEN [ts EXCEPT ![cat] = BumpBucket(@, MinuteBucket(e.timestamp))]
        ELSE ts

\* ------------------------------------------------------------- the result
EmptyHeatmap == [c \in Categories |-> <<>>]
EmptyTimelineStats == [c \in Categories |-> EmptyDict]

InitialStats(total) ==
    [total_matches |-> total, deaths_count |-> 0, kills_count |-> 0,
     assists_count |-> 0, objectives_count |-> 0]

\* _empty_response
EmptyResponse ==
    [stats |-> InitialStats(0),
     heatmap_data |-> EmptyHeatmap,
     timeline_data |-> [c \in Categories |-> <<>>]]

NoResult == EmptyDict

\* a timeline file whose json.load or ['metadata']['matchId'] raises
Unreadable(f) == ~f.loads

\* faulty variant: the mapping is stored whatever the resolver returned
TruthyAlways(pid) == TRUE

\* if participant_id:
Truthy(pid) == pid # 0

\* the loop moves to the next timeline file (frameNo and eventNo count
\* within one file and start over)
NextFile == fi' = fi + 1 /\ pc' = "pass2" /\ frameNo' = 0 /\ eventNo' = 0
LogError(pass) == errors' = errors \cup {[pass |-> pass, file |-> fi]}

aux == <<minute_buckets, n_matches, series>>
corpus == <<timeline_files, matches_dir>>
accumulators == <<heatmap_data, stats, timeline_stats>>
cursor == <<frameNo, eventNo, nEvents, event, player_participant_id>>

\* ------------------------------------------------------------------ Init
\* the state when generate_heatmap_data is entered, over the given corpus
InitOver(dirs) ==
    /\ timeline_files \in SeqsUpTo(TimelineFileKinds, MaxFiles)
    /\ matches_dir \in dirs
    /\ pc = "start"
    /\ fi = 0
    /\ frameNo = 0
    /\ eventNo = 0
    /\ nEvents = 0
    /\ puuid_to_participant_map = EmptyDict
    /\ player_participant_id = 0
    /\ event = EmptyDict
    /\ heatmap_data = EmptyHeatmap
    /\ stats = InitialStats(0)
    /\ timeline_stats = EmptyTimelineStats
    /\ result = NoResult
    /\ resolver_calls = <<>>
    /\ errors = {}
    /\ minute_buckets = EmptyDict
    /\ n_matches = 0
    /\ series = <<>>

Init == InitOver(MainDirs)

\* --------------------------------------------------- generate_heatmap_data
\* lines 51-60: the glob and the empty-corpus return
Start ==
    /\ pc = "start"
    /\ IF timeline_files = <<>>
       THEN /\ result' = EmptyResponse
            /\ pc' = "done"
            /\ UNCHANGED <<fi, puuid_to_participant_map>>
       ELSE /\ pc' = "pass1"
            /\ fi' = 1
            /\ puuid_to_participant_map' = EmptyDict
            /\ UNCHANGED result
    /\ UNCHANGED <<corpus, cursor, accumulators, resolver_calls, errors, aux>>

\* lines 62-78: one iteration of the mapping loop
Pass1File ==
    /\ pc = "pass1"
    /\ fi <= Len(timeline_files)
    /\ LET f == timeline_files[fi]
           participant_id ==
               GetParticipantIdForPuuid(matches_dir, f.matchId, TargetPuuid)
       IN  IF Unreadable(f)
           THEN /\ LogError(1)
                /\ UNCHANGED <<puuid_to_participant_map, resolver_calls>>
           ELSE /\ resolver_calls' = Append(resolver_calls, f.matchId)
                /\ puuid_to_participant_map' =
                      IF Truthy(participant_id)
                      THEN DictSet(puuid_to_participant_map, f.matchId, participant_id)
                      ELSE puuid_to_participant_map
                /\ UNCHANGED errors
    /\ fi' = fi + 1
    /\ UNCHANGED <<corpus, pc, cursor, accumulators, result, aux>>

\* lines 80-105: the accumulators are created
Pass1Done ==
    /\ pc = "pass1"
    /\ fi > Len(timeline_files)
    /\ heatmap_data' = EmptyHeatmap
    /\ stats' = InitialStats(Cardinality(DOMAIN puuid_to_participant_map))
    /\ timeline_stats' = EmptyTimelineStats
    /\ pc' = "pass2"
    /\ fi' = 1
    /\ UNCHANGED <<corpus, cursor, puuid_to_participant_map, result,
                   resolver_calls, errors, aux>>

\* lines 108-119: the file cannot be read, or its match is not in the map
Pass2Skip ==
    /\ pc = "pass2"
    /\ fi <= Len(timeline_files)
    /\ LET f == timeline_files[fi]
       IN  \/ Unreadable(f) /\ LogError(2)
           \/ ~Unreadable(f)
              /\ f.matchId \notin DOMAIN puuid_to_participant_map
              /\ UNCHANGED errors
    /\ NextFile
    /\ UNCHANGED <<corpus, nEvents, event, player_participant_id,
                   puuid_to_participant_map, accumulators, result,
                   resolver_calls, aux>>

Mapped ==
    /\ pc = "pass2"
    /\ fi <= Len(timeline_files)
    /\ ~Unreadable(timeline_files[fi])
    /\ timeline_files[fi].matchId \in DOMAIN puuid_to_participant_map

\* lines 112-124: the file is read and its frame loop is entered
Pass2Open ==
    /\ Mapped
    /\ player_participant_id' = puuid_to_participant_map[timeline_files[fi].matchId]
    /\ pc' = "frames"
    /\ frameNo' = 0
    /\ eventNo' = 0
    /\ UNCHANGED <<corpus, fi, nEvents, event, puuid_to_participant_map,
                   accumulators, result, resolver_calls, errors, aux>>

\* line 124 raises: the file has no ['info']['frames']
Pass2NoFrames ==
    /\ Mapped
    /\ player_participant_id' = puuid_to_participant_map[timeline_files[fi].matchId]
    /\ LogError(2)
    /\ NextFile
    /\ UNCHANGED <<corpus, nEvents, event, puuid_to_participant_map,
                   accumulators, result, resolver_calls, aux>>

\* line 124-126: the next frame is taken and its event list read
NextFrame ==
    /\ pc = "frames"
    /\ frameNo < MaxFrames
    /\ frameNo' = frameNo + 1
    /\ eventNo' = 0
    /\ pc' = "events"
    /\ UNCHANGED <<corpus, fi, nEvents, event, player_participant_id,
                   puuid_to_participant_map, accumulators, result,
                   resolver_calls, errors, aux>>

\* line 126 raises: the next frame is not an object (frame.get fails)
BadFrame ==
    /\ pc = "frames"
    /\ LogError(2)
    /\ NextFile
    /\ UNCHANGED <<corpus, nEvents, event, player_participant_id,
                   puuid_to_participant_map, accumulators, result,
                   resolver_calls, aux>>

\* the frame loop of the file is exhausted
EndFrames ==
    /\ pc = "frames"
    /\ NextFile
    /\ UNCHANGED <<corpus, nEvents, event, player_participant_id,
                   puuid_to_participant_map, accumulators, result,
                   resolver_calls, errors, aux>>

\* lines 126-200: one iteration of the event loop, on event e
ProcessEvent(e) ==
    /\ pc = "events"
    /\ event' = e
    /\ nEvents' = nEvents + 1
    /\ LET pid == player_participant_id
           match_id == timeline_files[fi].matchId
           src == <<fi, frameNo, eventNo + 1>>
       IN  /\ heatmap_data' = HeatmapAfter(heatmap_data, e, pid, match_id, src)
           /\ stats' = StatsAfter(stats, e, pid)
           /\ timeline_stats' = TimelineStatsAfter(timeline_stats, e, pid)
           /\ IF Outcome(e, pid) = "raise"
              THEN LogError(2) /\ NextFile
              ELSE eventNo' = eventNo + 1 /\ UNCHANGED <<errors, fi, pc, frameNo>>
    /\ UNCHANGED <<corpus, player_participant_id,
                   puuid_to_participant_map, result, resolver_calls, aux>>

\* the event list of the frame is exhausted
EndEvents ==
    /\ pc = "events"
    /\ pc' = "frames"
    /\ UNCHANGED <<corpus, fi, cursor, puuid_to_participant_map, accumulators,
                   result, resolver_calls, errors, aux>>

\* lines 202-221: the series are formatted and the result returned
Finish ==
    /\ pc = "pass2"
    /\ fi > Len(timeline_files)
    /\ LET total_matches ==
               TotalMatchesOr1(Cardinality(DOMAIN puuid_to_participant_map))
       IN  result' =
               [stats |-> stats,
                heatmap_data |-> heatmap_data,
                timeline_data |->
                    [c \in Categories |->
                        FormatTimelineData(timeline_stats[c], total_matches)]]
    /\ pc' = "done"
    /\ UNCHANGED <<corpus, fi, cursor, puuid_to_participant_map, accumulators,
                   resolver_calls, errors, aux>>

\* every step of generate_heatmap_data but the event loop body
Control ==
    \/ Start
    \/ Pass1File
    \/ Pass1Done
    \/ Pass2Skip
    \/ Pass2Open
    \/ Pass2NoFrames
    \/ NextFrame
    \/ BadFrame
    \/ EndFrames
    \/ EndEvents
    \/ Finish

ReadEvent == nEvents < MaxEvents /\ \E e \in CorpusEvents : ProcessEvent(e)

Next == Control \/ ReadEvent

\* the invocation over corpora of well-formed match files and varied events
Spec == Init /\ [][Next]_vars

\* ------------------------------------------------- lookup specification
\* The invocation over every match directory (missing, corrupt and foreign
\* match files), with timeline files that hold one kind of event.
LookupEvents ==
    {e \in CorpusEvents : e.type = "CHAMPION_KILL" /\ DictGet(e, "timestamp", 0) = 59999}

InitLookup == InitOver(MatchDirs)

ReadLookupEvent == nEvents < MaxEvents /\ \E e \in LookupEvents : ProcessEvent(e)

NextLookup == Control \/ ReadLookupEvent

SpecLookup == InitLookup /\ [][NextLookup]_vars

\* ------------------------------------------- single-event specification
\* The event loop body on every event shape, for both participant indexes:
\* the state is the one Pass2Open and NextFrame leave for a corpus of one
\* timeline file of match <<1>> whose match file lists the target at pid.
InitEvent ==
    /\ timeline_files = <<[loads |-> TRUE, matchId |-> <<1>>]>>
    /\ \E pid \in ParticipantIds :
          /\ matches_dir =
                <<[tail |-> <<1>>,
                   participants |-> [i \in 1..2 |-> IF i = pid THEN "T" ELSE "O"]]>>
          /\ puuid_to_participant_map =
                DictSet(EmptyDict, <<1>>,
                        GetParticipantIdForPuuid(matches_dir, <<1>>, TargetPuuid))
          /\ player_participant_id = puuid_to_participant_map[<<1>>]
    /\ pc = "events"
    /\ fi = 1
    /\ frameNo = 1
    /\ eventNo = 0
    /\ nEvents = 0
    /\ event = EmptyDict
    /\ heatmap_data = EmptyHeatmap
    /\ stats = InitialStats(1)
    /\ timeline_stats = EmptyTimelineStats
    /\ result = NoResult
    /\ resolver_calls = <<<<1>>>>
    /\ errors = {}
    /\ minute_buckets = EmptyDict
    /\ n_matches = 0
    /\ series = <<>>

ReadAnyEvent == nEvents < MaxClassified /\ \E e \in AllEvents : ProcessEvent(e)

NextEvent == ReadAnyEvent

SpecEvent == InitEvent /\ [][NextEvent]_vars

\* ------------------------------------------------ format specification
\* _format_timeline_data on every sparse minute map, called as lines
\* 206-213 call it: total_matches = len(puuid_to_participant_map) or 1.
\* Minutes are keys only once counted, so every stored count is >= 1, and
\* no event is counted when no match resolved.
BucketMaps ==
    UNION {[keys -> 1..MaxCount] : keys \in SUBSET (0..MaxMinute)}

InitFormat ==
    /\ minute_buckets \in BucketMaps
    /\ n_matches \in 0..MaxMatches
    /\ (n_matches = 0 => minute_buckets = EmptyDict)
    /\ series = <<>>
    /\ pc = "format"
    /\ timeline_files = <<>>
    /\ matches_dir = <<>>
    /\ fi = 0
    /\ frameNo = 0
    /\ eventNo = 0
    /\ nEvents = 0
    /\ puuid_to_participant_map = EmptyDict
    /\ player_participant_id = 0
    /\ event = EmptyDict
    /\ heatmap_data = EmptyHeatmap
    /\ stats = InitialStats(0)
    /\ timeline_stats = EmptyTimelineStats
    /\ result = NoResult
    /\ resolver_calls = <<>>
    /\ errors = {}

FormatCall ==
    /\ pc = "format"
    /\ series' = FormatTimelineData(minute_buckets, TotalMatchesOr1(n_matches))
    /\ pc' = "formatted"
    /\ UNCHANGED <<corpus, fi, cursor, puuid_to_participant_map, accumulators,
                   result, resolver_calls, errors, minute_buckets, n_matches>>

NextFormat == FormatCall

SpecFormat == InitFormat /\ [][NextFormat]_vars


\* ================================================================ claims
Done == pc = "done"

RECURSIVE SumCounts(_)
SumCounts(entries) ==
    IF entries = <<>> THEN 0
    ELSE entries[1].count + SumCounts(Tail(entries))

CountOf(st, c) ==
    IF c = "deaths" THEN st.deaths_count
    ELSE IF c = "kills" THEN st.kills_count
    ELSE IF c = "assists" THEN st.assists_count
    ELSE st.objectives_count

\* a file whose event pass logged an error after one of its events had
\* already been recorded
PartlyProcessed(f) ==
    /\ [pass |-> 2, file |-> f] \in errors
    /\ \E c \in Categories : \E i \in DOMAIN heatmap_data[c] :
          heatmap_data[c][i].src[1] = f

\* C1: when generate_heatmap_data returns, for every category the sum of
\* the count fields of the finalized series equals the number of heatmap
\* points of that category, also when a timeline record raised part-way.
C1_CountsMatchPoints ==
    Done =>
        \A c \in Categories :
            SumCounts(result.timeline_data[c]) = Len(result.heatmap_data[c])

C1_Witness ==
    /\ Done
    /\ \E f \in DOMAIN timeline_files : PartlyProcessed(f)
    /\ Len(result.heatmap_data["deaths"]) = 2
    /\ Len(result.timeline_data["deaths"]) = 1

\* C2: for every category whose finalized series is non-empty, the
\* cumulative field of its last entry equals the category's summary counter
\* in the returned result.
C2_LastCumulativeIsCounter ==
    Done =>
        \A c \in Categories :
            LET entries == result.timeline_data[c]
            IN  entries # <<>> =>
                    entries[Len(entries)].cumulative = CountOf(result.stats, c)

C2_Witness ==
    /\ Done
    /\ Len(result.timeline_data["deaths"]) = 3
    /\ result.timeline_data["deaths"][1].cumulative = 1
    /\ result.timeline_data["deaths"][3].cumulative = 2
    /\ result.stats.deaths_count = 2


\* ---------------------------------------------------------------- C3, C4
\* the step is one iteration of the event loop
EventStep == nEvents' = nEvents + 1

Grew(c) == Len(heatmap_data'[c]) - Len(heatmap_data[c])

\* the event contributed to category c and to no other: one point, one
\* counter increment and one per-minute increment, all of category c
ContributedOnlyTo(c) ==
    /\ Grew(c) = 1
    /\ CountOf(stats', c) = CountOf(stats, c) + 1
    /\ \A d \in Categories \ {c} :
          /\ heatmap_data'[d] = heatmap_data[d]
          /\ CountOf(stats', d) = CountOf(stats, d)
          /\ timeline_stats'[d] = timeline_stats[d]
    /\ timeline_stats'[c] # timeline_stats[c]

ContributedNothing ==
    /\ heatmap_data' = heatmap_data
    /\ stats' = stats
    /\ timeline_stats' = timeline_stats

\* at most one category received anything in this step
AtMostOneCategory ==
    \A c, d \in Categories :
        (c # d /\ (heatmap_data'[c] # heatmap_data[c]
                   \/ CountOf(stats', c) # CountOf(stats, c)
                   \/ timeline_stats'[c] # timeline_stats[c]))
        => /\ heatmap_data'[d] = heatmap_data[d]
           /\ CountOf(stats', d) = CountOf(stats, d)
           /\ timeline_stats'[d] = timeline_stats[d]

\* an event with a timestamp and a position holding both coordinates
Positioned(e) ==
    /\ "timestamp" \in DOMAIN e
    /\ "position" \in DOMAIN e
    /\ {"x", "y"} \subseteq DOMAIN e.position

\* C3: a positioned event contributes to at most one category, the one of
\* the first matching rule in the order death (champion kill, victim), kill
\* (champion kill, killer), assist (champion kill, assisting), objective
\* (elite monster killer, or building kill killer / assistant); a champion
\* kill whose victimId is the participant index is a death and never a kill
\* or an assist.
C3_FirstMatchingRule ==
    [][ /\ EventStep => AtMostOneCategory
        /\ (EventStep /\ Positioned(event')) =>
          LET e == event'
              p == player_participant_id
              ck == e.type = "CHAMPION_KILL"
              death == ck /\ e.victimId = p
              kill == ck /\ ~death /\ e.killerId = p
              assist == ck /\ ~death /\ ~kill /\ p \in e.assistingParticipantIds
              objective ==
                  \/ e.type = "ELITE_MONSTER_KILL" /\ e.killerId = p
                  \/ e.type = "BUILDING_KILL"
                     /\ (e.killerId = p \/ p \in e.assistingParticipantIds)
          IN  /\ death => ContributedOnlyTo("deaths")
              /\ kill => ContributedOnlyTo("kills")
              /\ assist => ContributedOnlyTo("assists")
              /\ objective => ContributedOnlyTo("objectives")
              /\ ~(death \/ kill \/ assist \/ objective) => ContributedNothing
      ]_vars

\* the player is victim, killer and assistant of one champion kill, and it
\* was recorded as a death only
C3_Witness ==
    /\ nEvents = 1
    /\ Positioned(event)
    /\ event.type = "CHAMPION_KILL"
    /\ event.victimId = player_participant_id
    /\ event.killerId = player_participant_id
    /\ player_participant_id \in event.assistingParticipantIds
    /\ Len(heatmap_data["deaths"]) = 1
    /\ heatmap_data["kills"] = <<>>
    /\ heatmap_data["assists"] = <<>>
    /\ stats.deaths_count = 1

\* C4: an event that has no position changes no output: no heatmap point,
\* no summary counter and no per-minute count, whatever its type, killerId,
\* victimId and assistingParticipantIds are.
C4_NoPositionNoOutput ==
    [][ (EventStep /\ "position" \notin DOMAIN event') => ContributedNothing ]_vars

\* a champion kill of the player was read without a position and left the
\* accumulators empty
C4_Witness ==
    /\ nEvents = 1
    /\ "position" \notin DOMAIN event
    /\ event.type = "CHAMPION_KILL"
    /\ event.victimId = player_participant_id
    /\ heatmap_data = EmptyHeatmap
    /\ stats = InitialStats(1)
    /\ timeline_stats = EmptyTimelineStats
    /\ pc = "events"


\* -------------------------------------------------------------------- C5
\* C5: a timeline record whose processing failed in either pass is skipped
\* entirely: no event of it contributes to the returned result, the events
\* before the malformed one included.
C5_FailedRecordContributesNothing ==
    Done =>
        \A er \in errors : \A c \in Categories :
            \A i \in DOMAIN result.heatmap_data[c] :
                result.heatmap_data[c][i].src[1] # er.file

\* -------------------------------------------------------------------- C6
\* the match ids of the timeline files that can be read
ReadableIds ==
    {timeline_files[i].matchId :
        i \in {j \in DOMAIN timeline_files : timeline_files[j].loads}}

\* The lookup of match id m succeeds: a match file is found, the first one
\* found parses, and its participant list holds the target player.
LookupSucceeds(m) ==
    \E i \in DOMAIN matches_dir :
        /\ IsSuffix(m, matches_dir[i].tail)
        /\ \A j \in 1..(i - 1) : ~IsSuffix(m, matches_dir[j].tail)
        /\ matches_dir[i].participants # Corrupt
        /\ \E k \in DOMAIN matches_dir[i].participants :
              matches_dir[i].participants[k] = TargetPuuid

\* C6: a match whose record lookup fails (no match file, unparsable record,
\* player not in the participant list) contributes no event to any heatmap
\* sequence, counter or series and is not counted in total_matches, which is
\* the number of matches whose resolution succeeded; the result is returned.
C6_FailedLookupExcluded ==
    Done =>
        /\ DOMAIN result = {"stats", "heatmap_data", "timeline_data"}
        /\ result.stats.total_matches =
              Cardinality({m \in ReadableIds : LookupSucceeds(m)})
        /\ \A c \in Categories : \A i \in DOMAIN result.heatmap_data[c] :
              LookupSucceeds(result.heatmap_data[c][i].match_id)
        /\ (\A m \in ReadableIds : ~LookupSucceeds(m)) =>
              \A c \in Categories :
                  /\ result.heatmap_data[c] = <<>>
                  /\ result.timeline_data[c] = <<>>
                  /\ CountOf(result.stats, c) = 0

\* one match failed its lookup, another resolved and contributed a point
C6_Witness ==
    /\ Done
    /\ \E m \in ReadableIds : ~LookupSucceeds(m)
    /\ result.stats.total_matches = 1
    /\ Len(result.heatmap_data["deaths"]) = 1
    /\ Cardinality(ReadableIds) = 2

\* ---------------------------------------------------------------- C7, C8
Formatted == pc = "formatted"

Divisor == IF n_matches >= 1 THEN n_matches ELSE 1

Abs(n) == IF n < 0 THEN -n ELSE n

\* C7 as stated: 100 * average = floor((200 * count + D) / (2 * D)), ties
\* away from zero (count 1, D 8 gives 0.13).
C7_HalfAwayFromZero ==
    Formatted =>
        \A i \in DOMAIN series :
            series[i].average_per_game =
                (200 * series[i].count + Divisor) \div (2 * Divisor)

\* C7 amended: average is a 2-decimal value nearest to count / D, and when
\* count / D is an odd multiple of 1/8 (a tie the float holds exactly) it is
\* the neighbour with an even last digit (count 1, D 8 gives 0.12).
C7_NearestTiesToEven ==
    Formatted =>
        \A i \in DOMAIN series :
            LET a == series[i].average_per_game
                c == series[i].count
            IN  /\ 2 * Abs(a * Divisor - 100 * c) <= Divisor
                /\ ((8 * c) % Divisor = 0 /\ ((8 * c) \div Divisor) % 2 = 1)
                      => a % 2 = 0

C7_Witness ==
    /\ Formatted
    /\ n_matches = 8
    /\ \E i \in DOMAIN series :
          series[i].count = 1 /\ series[i].average_per_game = 12

\* the sum of the raw counts of the minutes 0..m
RECURSIVE CountThrough(_, _)
CountThrough(buckets, m) ==
    IF m < 0 THEN 0
    ELSE CountThrough(buckets, m - 1) + (IF m \in DOMAIN buckets THEN buckets[m] ELSE 0)

\* C8: _format_timeline_data returns the empty sequence when no event was
\* recorded; otherwise exactly maxMinute + 1 entries, the i-th (from 0) with
\* minute = i, count = the raw count of minute i (0 without events) and
\* cumulative = the sum of the raw counts of minutes 0..i; the last entry
\* has count >= 1 and cumulative never decreases.
C8_DenseSeries ==
    Formatted =>
        IF DOMAIN minute_buckets = {}
        THEN series = <<>>
        ELSE LET maxMinute == SetMax(DOMAIN minute_buckets)
             IN  /\ Len(series) = maxMinute + 1
                 /\ \A i \in 0..maxMinute :
                       /\ series[i + 1].minute = i
                       /\ series[i + 1].count =
                             (IF i \in DOMAIN minute_buckets
                              THEN minute_buckets[i] ELSE 0)
                       /\ series[i + 1].cumulative = CountThrough(minute_buckets, i)
                       /\ i > 0 => series[i + 1].cumulative >= series[i].cumulative
                 /\ series[maxMinute + 1].count >= 1

\* minute 1 has no events and is filled in between minutes 0 and 2
C8_Witness ==
    /\ Formatted
    /\ DOMAIN minute_buckets = {0, 2}
    /\ Len(series) = 3
    /\ series[2].count = 0
    /\ series[2].cumulative = series[1].cumulative
    /\ series[3].cumulative > series[2].cumulative

\* -------------------------------------------------------------------- C9
IsPrefix(s, t) == Len(s) <= Len(t) /\ SubSeq(t, 1, Len(s)) = s

\* <<file, frame, event>> a comes before b in the traversal
Before(a, b) ==
    \/ a[1] < b[1]
    \/ a[1] = b[1] /\ a[2] < b[2]
    \/ a[1] = b[1] /\ a[2] = b[2] /\ a[3] < b[3]

InArrivalOrder(points) ==
    \A i, j \in DOMAIN points : i < j => Before(points[i].src, points[j].src)

\* C9: each category's point sequence preserves arrival order: points are
\* only ever appended, and stand in file enumeration order, then frame
\* order, then event order; the returned sequences are these sequences.
C9_ArrivalOrder ==
    [][ /\ \A c \in Categories :
             /\ IsPrefix(heatmap_data[c], heatmap_data'[c])
             /\ InArrivalOrder(heatmap_data'[c])
        /\ pc' = "done" => result'.heatmap_data = heatmap_data'
      ]_vars

\* two deaths of different files, returned in file order although the
\* first has the later timestamp
C9_Witness ==
    /\ Done
    /\ Len(result.heatmap_data["deaths"]) = 2
    /\ result.heatmap_data["deaths"][1].src[1] < result.heatmap_data["deaths"][2].src[1]
    /\ result.heatmap_data["deaths"][1].timestamp > result.heatmap_data["deaths"][2].timestamp

\* ------------------------------------------------------------------- C10
CallsFor(m) == Cardinality({i \in DOMAIN resolver_calls : resolver_calls[i] = m})

\* C10: the resolver is called once per distinct match identifier of the
\* timeline corpus, also when several timeline records carry the same
\* identifier, and only in the first pass.
C10_ResolverOncePerMatchId ==
    /\ Done => \A m \in ReadableIds : CallsFor(m) = 1
    /\ pc \in {"pass2", "frames", "events", "done"} =>
          \A m \in ReadableIds : CallsFor(m) >= 1

====
